---- MODULE Spec2Model ----
(***************************************************************************)
(* A model of the retrieval-augmented answer pipeline:                     *)
(*   src/src/vector_store.py        VectorStore                            *)
(*   src/src/document_processor.py  DocumentProcessor                      *)
(*   src/src/rag_system.py          RAGSystem                              *)
(*   src/main.py                    main                                   *)
(*                                                                         *)
(* Python values are modelled as follows.  A str is a sequence of tokens   *)
(* (concatenation is \o, the empty str is << >>).  An exception is a       *)
(* record field raised = TRUE with the exception's class name in error.    *)
(* Every method is an operator from its inputs (and the outcomes of the    *)
(* external calls it makes) to a record of its effects; the actions apply  *)
(* these operators to the state.                                           *)
(*                                                                         *)
(* The methods are modelled on an existing instance, whose attributes     *)
(* vector_store, document_processor and collection are bound, as every     *)
(* method body presupposes:                                                *)
(*   Spec          VectorStore.add_documents and similarity_search, called *)
(*                 in any order with any inputs, from an empty collection  *)
(*   SpecIngest    RAGSystem.ingest_documents, called any number of times  *)
(*   SpecGenerate  RAGSystem.generate_response, called any number of times *)
(* the last two over a collection that may already hold entries.           *)
(*   SpecMain      one run of the process entry point main(),              *)
(*                 construction included.                                  *)
(***************************************************************************)
EXTENDS Integers, Sequences, FiniteSets, TLC

VARIABLES
    collection,   \* the Chroma collection: sequence of [id, text, meta], insertion order
    nextId,       \* source of uuid.uuid4(): ids already drawn are 1 .. nextId-1
    last,         \* observation of the last method call (see Blank)
    mainpc,       \* main(): "idle" (not run) | "start" | "exit0" | "failed"
    stdout,       \* main(): the lines printed so far
    mainError,    \* main(): [stage, kind] of the error that left main, if any
    mainSteps,    \* main(): the calls of lines 22, 23 and 27 that returned, in order
    env           \* main(): process environment (API keys, input directory)

mainVars == <<mainpc, stdout, mainError, mainSteps, env>>

vars == <<collection, nextId, last, mainpc, stdout, mainError, mainSteps, env>>

----------------------------------------------------------------------------
(* Bounds of the model *)

MaxEntries == 3     \* entries the collection may hold
MaxBatch == 2       \* documents per add_documents call
MaxFiles == 2       \* file paths per ingest_documents call

(* Program constants *)

DefaultK == 4       \* similarity_search(self, query, k = 4)

Texts == {"t1", "t2"}
Queries == {"q1", "q2"}
Paths == {"a.pdf", "b.txt", "c.md"}

----------------------------------------------------------------------------
(* Sequence helpers *)

Take(s, n) == IF n <= 0 THEN << >> ELSE SubSeq(s, 1, IF n < Len(s) THEN n ELSE Len(s))

SeqsUpTo(S, n) == UNION {[1..m -> S] : m \in 0..n}

Ids(coll) == {coll[i].id : i \in 1..Len(coll)}

\* v = <expression>; <the statements that follow, reading v>
With(v, Rest(_)) == Rest(v)

----------------------------------------------------------------------------
(* Documents handed to add_documents.  shape "dict" is a Python dict with  *)
(* the key page_content (and the key metadata when hasMeta); shape         *)
(* "object" is an object with the attribute page_content (and metadata     *)
(* when hasMeta) and no get method: a LangChain Document, a                *)
(* SimpleNamespace.                                                        *)

Documents == [shape : {"dict", "object"}, page_content : Texts, hasMeta : BOOLEAN]

HasGet(doc) == doc.shape = "dict"

HasAttr(doc, name) ==
    /\ doc.shape = "object"
    /\ \/ name = "page_content"
       \/ name = "metadata" /\ doc.hasMeta

\* doc.get(key, default) of a dict
DictGet(doc, key, default) ==
    IF key = "page_content" THEN doc.page_content
    ELSE IF doc.hasMeta THEN "m" ELSE default

\* the attribute value of an object
AttrOf(doc, name) == IF name = "page_content" THEN doc.page_content ELSE "m"

\* getattr(doc, name, doc.get(name, default)): Python evaluates the argument
\* doc.get(...) before getattr is called, so a doc without a get method raises
\* AttributeError whether or not it has the attribute.
GetAttrOrGet(doc, name, default) ==
    IF ~HasGet(doc) THEN [raised |-> TRUE, error |-> "AttributeError", value |-> "none"]
    ELSE [raised |-> FALSE, error |-> "",
          value |-> IF HasAttr(doc, name) THEN AttrOf(doc, name)
                    ELSE DictGet(doc, name, default)]

\* (mutant) an id generator that restarts with every batch
UuidsRestart(nid, n) == [i \in 1..n |-> i]

\* ids = [str(uuid.uuid4()) for _ in documents]: n values never drawn before
Uuids(nid, n) == [i \in 1..n |-> nid + i - 1]

\* self.collection.add(ids, documents, metadatas): a batch with a repeated id is
\* rejected; an id already stored is skipped; the rest are appended in order.
RECURSIVE AppendNew(_, _, _, _)
AppendNew(coll, ids, texts, metas) ==
    IF ids = << >> THEN coll
    ELSE AppendNew(
            IF Head(ids) \in Ids(coll) THEN coll
            ELSE Append(coll, [id |-> Head(ids), text |-> Head(texts), meta |-> Head(metas)]),
            Tail(ids), Tail(texts), Tail(metas))

CollectionAdd(coll, ids, texts, metas) ==
    IF Cardinality({ids[i] : i \in 1..Len(ids)}) # Len(ids)
    THEN [raised |-> TRUE, error |-> "DuplicateIDError", coll |-> coll]
    ELSE [raised |-> FALSE, error |-> "", coll |-> AppendNew(coll, ids, texts, metas)]

\* VectorStore.add_documents(documents)
add_documents(coll, nid, documents) ==
    LET n == Len(documents)
        t == [i \in 1..n |-> GetAttrOrGet(documents[i], "page_content", "none")]
        m == [i \in 1..n |-> GetAttrOrGet(documents[i], "metadata", "{}")]
    IN  IF \E i \in 1..n : t[i].raised \/ m[i].raised
        THEN [raised |-> TRUE, error |-> "AttributeError", coll |-> coll, nid |-> nid,
              ids |-> << >>, adds |-> 0]
        ELSE With(Uuids(nid, n), LAMBDA ids :
             With(CollectionAdd(coll, ids, [i \in 1..n |-> t[i].value],
                                [i \in 1..n |-> m[i].value]), LAMBDA r :
                [raised |-> r.raised, error |-> r.error, coll |-> r.coll, nid |-> nid + n,
                 ids |-> ids, adds |-> 1]))

----------------------------------------------------------------------------
(* Similarity search *)

\* similarity of a stored text to a query, as the embedding function scores it
Score(query, text) ==
    IF (query = "q1" /\ text = "t1") \/ (query = "q2" /\ text = "t2") THEN 1 ELSE 0

\* self.collection.query(query_texts = [query], n_results = k): the k most similar
\* entries, most similar first, equal scores in insertion order
Rank(coll, query) ==
    SelectSeq(coll, LAMBDA e : Score(query, e.text) = 1)
        \o SelectSeq(coll, LAMBDA e : Score(query, e.text) = 0)

CollectionQuery(coll, query, k) == Take(Rank(coll, query), k)

\* wrapped = [SimpleNamespace(page_content = doc, metadata = meta) for ...]
Wrap(hits) ==
    [i \in 1..Len(hits) |-> [page_content |-> hits[i].text, metadata |-> hits[i].meta]]

\* (mutant) similarity_search without the count() == 0 early return
similarity_search_noguard(coll, query, k, fault) ==
    IF fault = "query"
    THEN [raised |-> TRUE, error |-> "ChromaError", result |-> << >>, queries |-> 1]
    ELSE [raised |-> FALSE, error |-> "",
          result |-> Wrap(CollectionQuery(coll, query, k)), queries |-> 1]

\* VectorStore.similarity_search(query, k).  fault = "count" / "query" is the
\* backing store failing that call.
similarity_search(coll, query, k, fault) ==
    IF fault = "count"
    THEN [raised |-> TRUE, error |-> "ChromaError", result |-> << >>, queries |-> 0]
    ELSE IF Len(coll) = 0
    THEN [raised |-> FALSE, error |-> "", result |-> << >>, queries |-> 0]
    ELSE IF fault = "query"
    THEN [raised |-> TRUE, error |-> "ChromaError", result |-> << >>, queries |-> 1]
    ELSE [raised |-> FALSE, error |-> "",
          result |-> Wrap(CollectionQuery(coll, query, k)), queries |-> 1]

----------------------------------------------------------------------------
(* DocumentProcessor *)

\* the loader load_document picks from the file name's suffix
LoaderFor(path) ==
    IF path = "a.pdf" THEN "PyPDFLoader"
    ELSE IF path = "b.txt" THEN "TextLoader"
    ELSE "UnstructuredFileLoader"

\* the chunks text_splitter.split_documents returns for a file: LangChain Document
\* objects (attributes page_content and metadata, no get method); an empty file
\* gives none
ChunkTexts(path) ==
    IF path = "a.pdf" THEN <<"t1", "t2">>
    ELSE IF path = "b.txt" THEN <<"t1">>
    ELSE << >>

Chunk(text) == [shape |-> "object", page_content |-> text, hasMeta |-> TRUE]

LoadEvent(path) == [ev |-> "load", path |-> path, loader |-> LoaderFor(path), batch |-> << >>]

AddEvent(batch) == [ev |-> "add", path |-> "", loader |-> "", batch |-> batch]

\* DocumentProcessor.load_document(file_path); failing is the set of paths whose
\* loader.load() raises
load_document(path, failing) ==
    IF path \in failing
    THEN [raised |-> TRUE, error |-> "FileNotFoundError", chunks |-> << >>]
    ELSE [raised |-> FALSE, error |-> "",
          chunks |-> [i \in 1..Len(ChunkTexts(path)) |-> Chunk(ChunkTexts(path)[i])]]

\* DocumentProcessor.process_documents(file_paths): the loop, from the chunks and
\* load events accumulated so far
RECURSIVE ProcessFrom(_, _, _, _)
ProcessFrom(paths, failing, all_chunks, events) ==
    IF paths = << >>
    THEN [raised |-> FALSE, error |-> "", chunks |-> all_chunks, events |-> events]
    ELSE With(load_document(Head(paths), failing), LAMBDA d :
         With(Append(events, LoadEvent(Head(paths))), LAMBDA ev :
            IF d.raised
            THEN [raised |-> TRUE, error |-> d.error, chunks |-> << >>, events |-> ev]
            ELSE ProcessFrom(Tail(paths), failing, all_chunks \o d.chunks, ev)))

process_documents(file_paths, failing) == ProcessFrom(file_paths, failing, << >>, << >>)

\* (mutant) ingestion that stores each file's chunks as soon as the file is loaded
RECURSIVE IngestPerFile(_, _, _, _, _)
IngestPerFile(coll, nid, paths, failing, events) ==
    IF paths = << >>
    THEN [raised |-> FALSE, error |-> "", coll |-> coll, nid |-> nid, events |-> events]
    ELSE With(load_document(Head(paths), failing), LAMBDA d :
         With(Append(events, LoadEvent(Head(paths))), LAMBDA ev :
            IF d.raised
            THEN [raised |-> TRUE, error |-> d.error, coll |-> coll, nid |-> nid,
                  events |-> ev]
            ELSE With(add_documents(coll, nid, d.chunks), LAMBDA a :
                 With(Append(ev, AddEvent(d.chunks)), LAMBDA ev2 :
                    IF a.raised
                    THEN [raised |-> TRUE, error |-> a.error, coll |-> a.coll,
                          nid |-> a.nid, events |-> ev2]
                    ELSE IngestPerFile(a.coll, a.nid, Tail(paths), failing, ev2)))))

ingest_documents_perfile(coll, nid, file_paths, failing) ==
    IngestPerFile(coll, nid, file_paths, failing, << >>)

\* RAGSystem.ingest_documents(file_paths)
ingest_documents(coll, nid, file_paths, failing) ==
    With(process_documents(file_paths, failing), LAMBDA p :
        IF p.raised
        THEN [raised |-> TRUE, error |-> p.error, coll |-> coll, nid |-> nid,
              events |-> p.events]
        ELSE With(add_documents(coll, nid, p.chunks), LAMBDA a :
                [raised |-> a.raised, error |-> a.error, coll |-> a.coll, nid |-> a.nid,
                 events |-> Append(p.events, AddEvent(p.chunks))]))

----------------------------------------------------------------------------
(* Responses of the generative backend, and the extraction of the answer.  *)
(*                                                                         *)
(* A Python value that may be returned as the answer is [k, o]: its kind k *)
(*   "str"    a non-empty str         "empty"  the str ""                  *)
(*   "none"   None (or a missing key) "obj"    any other truthy object     *)
(* and the place o of the response it was read from.                       *)

Kinds == {"str", "empty", "none", "obj"}

Val(k, o) == [k |-> k, o |-> o]

Truthy(k) == k \in {"str", "obj"}

IsStr(k) == k \in {"str", "empty"}

NoResp ==
    [ty |-> "other", content |-> "none", candidates |-> "absent", cand_content |-> "none",
     cand_message |-> "none", message |-> "absent", msg_content |-> "none",
     output |-> "absent", out_text |-> "none", self |-> "obj"]

\* resp is a dict: the value under "content"; "candidates" missing, [], a list whose
\* first element is a dict (with its "content" and "message"), a list whose first
\* element is not a dict, or a truthy value that [0] cannot index (a non-empty dict,
\* a number)
DictResponses ==
    {[NoResp EXCEPT !.ty = "dict", !.content = c, !.candidates = cs] :
        c \in Kinds, cs \in {"absent", "emptylist", "list_other", "unindexable"}}
    \cup
    {[NoResp EXCEPT !.ty = "dict", !.content = c, !.candidates = "list_dict",
                    !.cand_content = cc, !.cand_message = cm] :
        c \in Kinds, cc \in Kinds, cm \in {"none", "str"}}

\* resp is an object: attribute message missing, a dict (with its "content"), an
\* object with the attribute content, an object without it, or a property whose
\* getter raises; attribute output missing, holding output[0]["content"][0]["text"],
\* or anything that expression cannot index
ObjectResponses ==
    {[NoResp EXCEPT !.ty = "object", !.message = m, !.output = o, !.out_text = ot] :
        m \in {"absent", "obj_nocontent", "raises"},
        o \in {"absent", "malformed"}, ot \in {"none"}}
    \cup
    {[NoResp EXCEPT !.ty = "object", !.message = m, !.output = "text", !.out_text = ot] :
        m \in {"absent", "obj_nocontent", "raises"}, ot \in {"str", "empty", "none"}}
    \cup
    {[NoResp EXCEPT !.ty = "object", !.message = m, !.msg_content = mc, !.output = o,
                    !.out_text = IF o = "text" THEN "str" ELSE "none"] :
        m \in {"dict", "obj_content"}, mc \in Kinds, o \in {"absent", "text", "malformed"}}

\* resp is itself a str (possibly ""), or some other object (None, a number)
PlainResponses ==
    {[NoResp EXCEPT !.ty = "str", !.self = k] : k \in {"str", "empty"}} \cup {NoResp}

Responses == DictResponses \cup ObjectResponses \cup PlainResponses

\* str(resp): resp itself when it is a str, its (non-empty) representation otherwise
StrOf(resp) == IF resp.ty = "str" THEN Val(resp.self, "resp") ELSE Val("str", "str(resp)")

Returned(v, swallowed) ==
    [raised |-> FALSE, error |-> "", value |-> v, swallowed |-> swallowed]

ExtractionFailed ==
    [raised |-> TRUE, error |-> "RuntimeError", value |-> Val("none", ""), swallowed |-> FALSE]

\* lines 99-108: the output shape, then the last resort
ExtractOutput(resp) ==
    IF resp.output = "text" THEN Returned(Val(resp.out_text, "output.text"), FALSE)
    ELSE IF resp.output = "malformed" THEN Returned(StrOf(resp), TRUE)
    ELSE Returned(StrOf(resp), FALSE)

\* lines 91-97: the message shape
ExtractMessage(resp) ==
    IF resp.message = "raises" THEN ExtractionFailed
    ELSE IF resp.message = "dict"
    THEN Returned(IF Truthy(resp.msg_content) THEN Val(resp.msg_content, "message.content")
                  ELSE Val("str", "str(message)"), FALSE)
    ELSE IF resp.message = "obj_content"
    THEN Returned(Val(resp.msg_content, "message.content"), FALSE)
    ELSE ExtractOutput(resp)

\* (mutant) extraction that looks at "candidates" before "content"
ExtractCandidatesFirst(resp) ==
    IF resp.ty = "dict" /\ resp.candidates = "list_dict"
    THEN Returned(IF Truthy(resp.cand_content) THEN Val(resp.cand_content, "candidate.content")
                  ELSE IF Truthy(resp.cand_message)
                       THEN Val(resp.cand_message, "candidate.message")
                       ELSE Val("str", "str(candidate)"), FALSE)
    ELSE IF resp.ty = "dict" /\ IsStr(resp.content)
    THEN Returned(Val(resp.content, "content"), FALSE)
    ELSE IF resp.ty = "dict" /\ resp.candidates = "unindexable" THEN ExtractionFailed
    ELSE ExtractMessage(resp)

\* lines 80-111: the extraction of the reply text from resp
ExtractText(resp) ==
    IF resp.ty = "dict" /\ IsStr(resp.content)
    THEN Returned(Val(resp.content, "content"), FALSE)
    ELSE IF resp.ty = "dict" /\ resp.candidates = "unindexable"
    THEN ExtractionFailed
    ELSE IF resp.ty = "dict" /\ resp.candidates = "list_dict"
    THEN Returned(IF Truthy(resp.cand_content) THEN Val(resp.cand_content, "candidate.content")
                  ELSE IF Truthy(resp.cand_message)
                       THEN Val(resp.cand_message, "candidate.message")
                       ELSE Val("str", "str(candidate)"), FALSE)
    ELSE ExtractMessage(resp)

----------------------------------------------------------------------------
(* RAGSystem.generate_response *)

\* "\n".join(parts)
RECURSIVE Join(_)
Join(parts) ==
    IF parts = << >> THEN << >>
    ELSE IF Len(parts) = 1 THEN <<parts[1]>>
    ELSE <<parts[1], "\n">> \o Join(Tail(parts))

SystemMessage ==
    [role |-> "system",
     content |-> <<"You are a helpful assistant. Use the following context to answer the user's question.">>]

\* f"Context:\n{context}\n\nQuestion: {query}"
UserMessage(context, query) ==
    [role |-> "user",
     content |-> <<"Context:\n">> \o context \o <<"\n\nQuestion: ">> \o <<query>>]

NoCall ==
    [raised |-> FALSE, error |-> "", value |-> Val("none", ""), swallowed |-> FALSE,
     searches |-> 0, queries |-> 0, genCalls |-> 0, result |-> << >>, request |-> << >>]

\* what genai.chat.create does with the request: it raises, or it returns resp
Backends ==
    {[raises |-> TRUE, error |-> e, resp |-> NoResp] : e \in {"AttributeError", "GenerationError"}}
    \cup {[raises |-> FALSE, error |-> "", resp |-> r] : r \in Responses}

\* lines 56-75: the request, as far as the call of the backend
Request(s, query) ==
    [NoCall EXCEPT !.searches = 1, !.queries = s.queries, !.genCalls = 1,
                   !.result = s.result,
                   !.request =
                       <<SystemMessage,
                         UserMessage(Join([i \in 1..Len(s.result) |-> s.result[i].page_content]),
                                     query)>>]

SearchFailed(s) ==
    [NoCall EXCEPT !.raised = TRUE, !.error = s.error, !.searches = 1, !.queries = s.queries]

\* lines 77-111: the outcome x of the extraction, after the call
Extracted(called, x) ==
    [called EXCEPT !.raised = x.raised, !.error = x.error, !.value = x.value,
                   !.swallowed = x.swallowed]

\* (mutant) generate_response that answers without the backend when nothing is retrieved
generate_response_skip(coll, query, sfault, backend) ==
    With(similarity_search(coll, query, DefaultK, sfault), LAMBDA s :
        IF s.raised THEN SearchFailed(s)
        ELSE IF s.result = << >>
        THEN [NoCall EXCEPT !.value = Val("str", "no context"), !.searches = 1,
                            !.queries = s.queries]
        ELSE IF backend.raises
        THEN [Request(s, query) EXCEPT !.raised = TRUE, !.error = backend.error]
        ELSE Extracted(Request(s, query), ExtractText(backend.resp)))

\* (mutant) generate_response with the backend call inside the try block
generate_response_wrap(coll, query, sfault, backend) ==
    With(similarity_search(coll, query, DefaultK, sfault), LAMBDA s :
        IF s.raised THEN SearchFailed(s)
        ELSE IF backend.raises
        THEN [Request(s, query) EXCEPT !.raised = TRUE, !.error = "RuntimeError"]
        ELSE Extracted(Request(s, query), ExtractText(backend.resp)))

\* RAGSystem.generate_response(query).  sfault is the backing store's fault during
\* the search, backend the generative backend's behaviour.
generate_response(coll, query, sfault, backend) ==
    With(similarity_search(coll, query, DefaultK, sfault), LAMBDA s :
        IF s.raised THEN SearchFailed(s)
        ELSE IF backend.raises
        THEN [Request(s, query) EXCEPT !.raised = TRUE, !.error = backend.error]
        ELSE Extracted(Request(s, query), ExtractText(backend.resp)))

----------------------------------------------------------------------------
(* Construction and the entry point *)

\* whether a VectorStore instance has the attribute model when line 54 reads it:
\* the only assignment to it (line 50) is commented out
HasModelAttribute == FALSE

\* VectorStore.__init__: line 54 reads self.model
VectorStore_init ==
    IF HasModelAttribute THEN [raised |-> FALSE, error |-> ""]
    ELSE [raised |-> TRUE, error |-> "AttributeError"]

\* RAGSystem.__init__ in the environment e: the key genai is configured with
\* ("unconfigured" when neither variable is set)
RAGSystem_init(e) ==
    LET v == VectorStore_init
    IN  IF v.raised THEN [raised |-> TRUE, error |-> v.error, apiKey |-> "unconfigured"]
        ELSE [raised |-> FALSE, error |-> "",
              apiKey |-> IF e.gemini # "" THEN e.gemini
                         ELSE IF e.google # "" THEN e.google
                         ELSE "unconfigured"]

\* main() lines 11-19: the names of the plain files of ./data/raw_docs
ListDocuments(e) ==
    IF e.exists /\ e.isdir
    THEN LET files == SelectSeq(e.listing, LAMBDA x : x.isfile)
         IN  [i \in 1..Len(files) |-> files[i].name]
    ELSE << >>

MainQuery == "What is the use of the tag run?"

Exit(pc, stage, kind, steps, out, coll, nid) ==
    [pc |-> pc, error |-> [stage |-> stage, kind |-> kind], steps |-> steps, stdout |-> out,
     coll |-> coll, nid |-> nid]

\* main() lines 22-27: the pipeline, up to the response
RunPipeline(e, coll, nid, failing, sfault, backend) ==
    With(RAGSystem_init(e), LAMBDA rag :
        IF rag.raised
        THEN Exit("failed", "construct", rag.error, << >>, << >>, coll, nid)
        ELSE With(ingest_documents(coll, nid, ListDocuments(e), failing), LAMBDA ing :
            IF ing.raised
            THEN Exit("failed", "ingest", ing.error, <<"construct">>, << >>,
                      ing.coll, ing.nid)
            ELSE With(generate_response(ing.coll, MainQuery, sfault, backend), LAMBDA g :
                IF g.raised
                THEN Exit("failed", "generate", g.error, <<"construct", "ingest">>, << >>,
                          ing.coll, ing.nid)
                ELSE Exit("exit0", "", "", <<"construct", "ingest", "generate">>,
                          <<g.value>>, ing.coll, ing.nid))))

\* (mutant) a main that catches the pipeline's error and prints it as the response
main_catch(e, coll, nid, failing, sfault, backend) ==
    With(RunPipeline(e, coll, nid, failing, sfault, backend), LAMBDA r :
        [r EXCEPT !.pc = "exit0", !.error = [stage |-> "", kind |-> ""],
                  !.stdout = <<<<"Query: ", MainQuery>>,
                               <<"Response: ",
                                 IF r.pc = "failed" THEN Val("str", "error")
                                 ELSE r.stdout[1]>>>>])

\* main(): the whole run, given the environment and the outcomes of the external
\* calls; the two lines are printed once the pipeline has returned the response
main(e, coll, nid, failing, sfault, backend) ==
    With(RunPipeline(e, coll, nid, failing, sfault, backend), LAMBDA r :
        IF r.pc = "failed" THEN r
        ELSE [r EXCEPT !.stdout = <<<<"Query: ", MainQuery>>, <<"Response: ", r.stdout[1]>>>>])

----------------------------------------------------------------------------
(* State *)

NoError == [stage |-> "", kind |-> ""]

NoEnv == [gemini |-> "", google |-> "", exists |-> FALSE, isdir |-> FALSE, listing |-> << >>]

\* the observation of a call: every field a call does not set keeps this value
Blank ==
    [op |-> "none", raised |-> FALSE, error |-> "", before |-> << >>, fault |-> "none",
     docs |-> << >>, ids |-> << >>, adds |-> 0,
     query |-> "", k |-> 0, result |-> << >>, queries |-> 0,
     searches |-> 0, genCalls |-> 0, request |-> << >>, backend |-> "none",
     resp |-> NoResp, value |-> Val("none", ""), swallowed |-> FALSE,
     paths |-> << >>, failing |-> {}, events |-> << >>]

Ks == {-1, 0, 1, DefaultK}

StoreFaults == {"none", "count", "query"}

\* collections that earlier add_documents calls have built
SeedCollections ==
    {<< >>,
     <<[id |-> 1, text |-> "t1", meta |-> "m"]>>,
     <<[id |-> 1, text |-> "t2", meta |-> "{}"], [id |-> 2, text |-> "t1", meta |-> "m"]>>}

Idle ==
    /\ last = Blank
    /\ mainpc = "idle"
    /\ stdout = << >>
    /\ mainError = NoError
    /\ mainSteps = << >>
    /\ env = NoEnv

Init ==
    /\ collection = << >>
    /\ nextId = 1
    /\ Idle

InitSeeded ==
    /\ collection \in SeedCollections
    /\ nextId = Len(collection) + 1
    /\ Idle

\* rag.vector_store.add_documents(docs)
AddDocuments ==
    \E docs \in SeqsUpTo(Documents, MaxBatch) :
        /\ Len(collection) + Len(docs) <= MaxEntries
        /\ \E r \in {add_documents(collection, nextId, docs)} :
               /\ collection' = r.coll
               /\ nextId' = r.nid
               /\ last' = [Blank EXCEPT !.op = "add", !.raised = r.raised, !.error = r.error,
                                        !.before = collection,
                                        !.docs = docs, !.ids = r.ids, !.adds = r.adds]
        /\ UNCHANGED mainVars

\* rag.vector_store.similarity_search(query, k); the backing store accepts k >= 1
SimilaritySearch ==
    \E query \in Queries, k \in Ks, fault \in StoreFaults :
        /\ Len(collection) = 0 \/ k >= 1
        /\ \E r \in {similarity_search(collection, query, k, fault)} :
               last' = [Blank EXCEPT !.op = "search", !.raised = r.raised, !.error = r.error,
                                     !.before = collection, !.fault = fault,
                                     !.query = query, !.k = k, !.result = r.result,
                                     !.queries = r.queries, !.searches = 1]
        /\ UNCHANGED <<collection, nextId, mainVars>>

\* rag.ingest_documents(file_paths)
IngestDocuments ==
    \E paths \in SeqsUpTo(Paths, MaxFiles), failing \in SUBSET Paths :
        /\ \E r \in {ingest_documents(collection, nextId, paths, failing)} :
               /\ collection' = r.coll
               /\ nextId' = r.nid
               /\ last' = [Blank EXCEPT !.op = "ingest", !.raised = r.raised,
                                        !.error = r.error, !.before = collection,
                                        !.paths = paths,
                                        !.failing = failing, !.events = r.events]
        /\ UNCHANGED mainVars

\* rag.generate_response(query)
GenerateResponse ==
    \E query \in Queries, sfault \in StoreFaults, backend \in Backends :
        /\ \E r \in {generate_response(collection, query, sfault, backend)} :
               last' = [Blank EXCEPT !.op = "generate", !.raised = r.raised,
                                     !.error = r.error, !.before = collection,
                                     !.fault = sfault, !.query = query,
                                     !.result = r.result, !.queries = r.queries,
                                     !.searches = r.searches, !.genCalls = r.genCalls,
                                     !.request = r.request,
                                     !.backend = IF backend.raises THEN backend.error
                                                 ELSE "returns",
                                     !.resp = backend.resp, !.value = r.value,
                                     !.swallowed = r.swallowed]
        /\ UNCHANGED <<collection, nextId, mainVars>>

\* the vector store: documents are added and searched in any order
Next == AddDocuments \/ SimilaritySearch

Spec == Init /\ [][Next]_vars

\* ingestion into a collection that may already hold entries
NextIngest == IngestDocuments

SpecIngest == InitSeeded /\ [][NextIngest]_vars

\* answering over a collection that may already hold entries
NextGenerate == GenerateResponse

SpecGenerate == InitSeeded /\ [][NextGenerate]_vars

----------------------------------------------------------------------------
(* One run of main() *)

Listings ==
    {l \in SeqsUpTo([name : Paths, isfile : BOOLEAN], MaxFiles) :
        \A i, j \in 1..Len(l) : i # j => l[i].name # l[j].name}

Envs ==
    {[gemini |-> g, google |-> o, exists |-> x, isdir |-> d, listing |-> l] :
        g \in {"", "gemini-key"}, o \in {"", "google-key"},
        x \in BOOLEAN, d \in BOOLEAN, l \in Listings}

\* the backend in a run of main: it raises, or it returns a reply of one of these
\* shapes (SpecGenerate goes through all of Responses)
MainBackends ==
    {b \in Backends :
        \/ b.raises
        \/ b.resp \in {NoResp,
                        [NoResp EXCEPT !.ty = "dict", !.content = "str"],
                        [NoResp EXCEPT !.ty = "dict", !.candidates = "unindexable"]}}

InitMain ==
    /\ collection \in SeedCollections
    /\ nextId = Len(collection) + 1
    /\ last = Blank
    /\ mainpc = "start"
    /\ stdout = << >>
    /\ mainError = NoError
    /\ mainSteps = << >>
    /\ env \in {e \in Envs : (e.isdir => e.exists) /\ (~e.isdir => e.listing = << >>)}

Main ==
    /\ mainpc = "start"
    /\ \E failing \in SUBSET Paths, sfault \in StoreFaults, backend \in MainBackends :
          \E r \in {main(env, collection, nextId, failing, sfault, backend)} :
              /\ mainpc' = r.pc
              /\ mainError' = r.error
              /\ mainSteps' = r.steps
              /\ stdout' = r.stdout
              /\ collection' = r.coll
              /\ nextId' = r.nid
    /\ UNCHANGED <<last, env>>

NextMain == Main

SpecMain == InitMain /\ [][NextMain]_vars

----------------------------------------------------------------------------
(* Properties of the vector store (Spec) *)

\* what holds of the add_documents calls that return: each of the n documents has
\* an id that differs from the batch's other ids and from every id stored before
\* the call, and the collection is the one before the call followed by these n
\* entries in order, a document already stored included (no deduplication); no call
\* makes the collection shorter, and no two stored entries ever share an id.
ReturningAddAssignsFreshIds ==
    /\ (last.op = "add" /\ ~last.raised) =>
         LET n == Len(last.docs)
             b == Len(last.before)
         IN  /\ Len(last.ids) = n
             /\ \A i, j \in 1..n : i # j => last.ids[i] # last.ids[j]
             /\ \A i \in 1..n : last.ids[i] \notin Ids(last.before)
             /\ Len(collection) = b + n
             /\ SubSeq(collection, 1, b) = last.before
             /\ \A i \in 1..n : /\ collection[b + i].id = last.ids[i]
                                /\ collection[b + i].text = last.docs[i].page_content
    /\ last.op # "none" => Len(collection) >= Len(last.before)
    /\ \A i, j \in 1..Len(collection) : i # j => collection[i].id # collection[j].id

\* C1: every add_documents call with n documents assigns n ids, distinct from each
\* other and from the ids stored before, and makes the collection n entries longer;
\* the collection never gets shorter.
C1_EveryAddGrowsByN ==
    /\ last.op = "add" =>
         LET n == Len(last.docs)
         IN  /\ Len(last.ids) = n
             /\ \A i, j \in 1..n : i # j => last.ids[i] # last.ids[j]
             /\ \A i \in 1..n : last.ids[i] \notin Ids(last.before)
             /\ Len(collection) = Len(last.before) + n
    /\ last.op # "none" => Len(collection) >= Len(last.before)

\* a batch of two equal documents was added to a collection that already held that
\* document, and all three copies are stored
ReturningAddWitness ==
    /\ last.op = "add" /\ ~last.raised
    /\ Len(last.docs) = 2 /\ last.docs[1] = last.docs[2]
    /\ \E i \in 1..Len(last.before) : last.before[i].text = last.docs[1].page_content
    /\ Len(collection) = MaxEntries

\* C2: a similarity_search on a collection whose count() is 0 returns the empty list
\* and issues no query to the collection, whatever the query and k.
C2_EmptySearch ==
    (last.op = "search" /\ last.before = << >> /\ last.fault # "count") =>
        /\ ~last.raised
        /\ last.result = << >>
        /\ last.queries = 0

\* an empty collection was searched with k = -1 while a query call would have failed
C2_Witness ==
    /\ last.op = "search" /\ last.before = << >>
    /\ last.k = -1 /\ last.fault = "query"
    /\ ~last.raised

\* C7: add_documents accepts dicts and objects alike: every call adds all of its
\* documents and does not raise.
C7_AcceptsBothShapes ==
    last.op = "add" => (~last.raised /\ Len(collection) = Len(last.before) + Len(last.docs))

----------------------------------------------------------------------------
(* Properties of ingestion (SpecIngest) *)

RECURSIVE Flatten(_)
Flatten(ss) == IF ss = << >> THEN << >> ELSE Head(ss) \o Flatten(Tail(ss))

FirstFailing(paths, failing) ==
    IF \E i \in 1..Len(paths) : paths[i] \in failing
    THEN CHOOSE i \in 1..Len(paths) :
            /\ paths[i] \in failing
            /\ \A j \in 1..(i - 1) : paths[j] \notin failing
    ELSE 0

Loads(paths, n) == [i \in 1..n |-> LoadEvent(paths[i])]

AllChunks(paths) ==
    Flatten([i \in 1..Len(paths) |->
                [j \in 1..Len(ChunkTexts(paths[i])) |-> Chunk(ChunkTexts(paths[i])[j])]])

\* C10: ingest_documents loads the files in the order of file_paths and then calls
\* add_documents exactly once, with the chunks of all files concatenated in that
\* order; when a file fails to load, the files after it are not loaded,
\* add_documents is not called at all, the error is raised and the collection is
\* what it was before the call.
C10_IngestAllOrNothing ==
    last.op = "ingest" =>
        LET f == FirstFailing(last.paths, last.failing)
        IN  IF f = 0
            THEN last.events = Append(Loads(last.paths, Len(last.paths)),
                                      AddEvent(AllChunks(last.paths)))
            ELSE /\ last.events = Loads(last.paths, f)
                 /\ last.raised /\ last.error = "FileNotFoundError"
                 /\ collection = last.before

\* the second of two files failed to load after the first had given chunks, the
\* collection held entries, and nothing was stored
C10_Witness ==
    /\ last.op = "ingest" /\ last.raised
    /\ Len(last.paths) = 2
    /\ last.paths[1] \notin last.failing /\ ChunkTexts(last.paths[1]) # << >>
    /\ last.paths[2] \in last.failing
    /\ last.before # << >> /\ collection = last.before

----------------------------------------------------------------------------
(* Properties of generate_response (SpecGenerate) *)

\* the search of the last generate_response call raised
SearchRaised ==
    \/ last.fault = "count"
    \/ last.fault = "query" /\ last.before # << >>

\* the backend of the last generate_response call was reached and returned resp
Answered == last.op = "generate" /\ ~SearchRaised /\ last.backend = "returns"

\* C3: when the search of a generate_response call returns no result, the backend
\* is still called, once, with the system message and a user message made of the
\* empty context followed by the question; the call raises only if the backend or
\* the extraction does.
C3_EmptyContextStillAsks ==
    (last.op = "generate" /\ last.before = << >> /\ last.fault # "count") =>
        /\ last.result = << >>
        /\ last.genCalls = 1
        /\ Len(last.request) = 2
        /\ last.request[1] = SystemMessage
        /\ last.request[2].role = "user"
        /\ last.request[2].content = <<"Context:\n", "\n\nQuestion: ", last.query>>
        /\ last.raised => (last.backend # "returns" \/ last.error = "RuntimeError")

\* a question asked over an empty collection was answered from the backend's reply
C3_Witness ==
    /\ last.op = "generate" /\ last.before = << >>
    /\ last.backend = "returns" /\ ~last.raised
    /\ last.genCalls = 1 /\ last.value.k = "str"

\* the response shapes, in the order of their priority
ShapeOrder == <<"dict_content", "dict_candidates", "obj_message", "obj_output">>

\* the places of a response a shape's text is read from
ShapeOrigins(shape) ==
    CASE shape = "dict_content" -> {"content"}
      [] shape = "dict_candidates" -> {"candidate.content", "candidate.message", "str(candidate)"}
      [] shape = "obj_message" -> {"message.content", "str(message)"}
      [] shape = "obj_output" -> {"output.text"}
      [] OTHER -> {"resp", "str(resp)"}

\* the shape is there: a dict with a str "content", a dict with non-empty
\* "candidates", an object with message, an object with output
ShapePresent(shape, r) ==
    CASE shape = "dict_content" -> r.ty = "dict" /\ IsStr(r.content)
      [] shape = "dict_candidates" ->
            r.ty = "dict" /\ r.candidates \in {"list_dict", "list_other", "unindexable"}
      [] shape = "obj_message" -> r.ty = "object" /\ r.message # "absent"
      [] shape = "obj_output" -> r.ty = "object" /\ r.output # "absent"

\* what looking for the shape gives: "text" when its text can be read, "error" when
\* reading it raises, "skip" otherwise
Probe(shape, r) ==
    CASE shape = "dict_content" ->
            IF r.ty = "dict" /\ IsStr(r.content) THEN "text" ELSE "skip"
      [] shape = "dict_candidates" ->
            IF r.ty = "dict" /\ r.candidates = "list_dict" THEN "text"
            ELSE IF r.ty = "dict" /\ r.candidates = "unindexable" THEN "error"
            ELSE "skip"
      [] shape = "obj_message" ->
            IF r.ty = "object" /\ r.message \in {"dict", "obj_content"} THEN "text"
            ELSE IF r.ty = "object" /\ r.message = "raises" THEN "error"
            ELSE "skip"
      [] shape = "obj_output" ->
            IF r.ty = "object" /\ r.output = "text" THEN "text" ELSE "skip"

\* the first shape of ShapeOrder that P holds of, 0 when there is none
FirstShape(P(_)) ==
    IF \E i \in 1..Len(ShapeOrder) : P(ShapeOrder[i])
    THEN CHOOSE i \in 1..Len(ShapeOrder) :
            /\ P(ShapeOrder[i])
            /\ \A j \in 1..(i - 1) : ~P(ShapeOrder[j])
    ELSE 0

\* the kind of the value a shape holds
ShapeKinds(shape, r) ==
    CASE shape = "dict_content" -> {r.content}
      [] shape = "dict_candidates" ->
            IF Truthy(r.cand_content) THEN {r.cand_content}
            ELSE IF Truthy(r.cand_message) THEN {r.cand_message} ELSE {"str"}
      [] shape = "obj_message" ->
            IF r.message = "dict" /\ ~Truthy(r.msg_content) THEN {"str"} ELSE {r.msg_content}
      [] shape = "obj_output" -> {r.out_text}

\* C4 as stated: the extraction returns the text of the first shape that is there
\* and str(resp) when none is, and does not fail.
C4_FirstPresentShape ==
    Answered =>
        LET i == FirstShape(LAMBDA sh : ShapePresent(sh, last.resp))
        IN  /\ ~last.raised
            /\ last.value.o \in ShapeOrigins(IF i = 0 THEN "none" ELSE ShapeOrder[i])

\* C4 (amended): the extraction looks for the shapes in the order dict with a str
\* "content", dict with "candidates" whose first element is a dict, object whose
\* message is a dict or has content, object whose output holds
\* output[0]["content"][0]["text"]; a shape that is there in another form is passed
\* over.  It returns the value of the first shape found, raises RuntimeError when
\* reading a shape raises before one is found (a truthy "candidates" that [0]
\* cannot index, a message whose getter raises), and returns str(resp) otherwise.
C4_FirstUsableShape ==
    Answered =>
        LET i == FirstShape(LAMBDA sh : Probe(sh, last.resp) # "skip")
        IN  IF i = 0
            THEN ~last.raised /\ last.value = StrOf(last.resp)
            ELSE IF Probe(ShapeOrder[i], last.resp) = "error"
            THEN last.raised /\ last.error = "RuntimeError"
            ELSE /\ ~last.raised
                 /\ last.value.o \in ShapeOrigins(ShapeOrder[i])
                 /\ last.value.k \in ShapeKinds(ShapeOrder[i], last.resp)

\* a dict response held both a str "content" and a candidate with text, and the
\* content was returned
C4_Witness ==
    /\ Answered /\ ~last.raised
    /\ last.resp.ty = "dict" /\ last.resp.content = "str"
    /\ last.resp.candidates = "list_dict" /\ last.resp.cand_content = "str"
    /\ last.value = Val("str", "content")

\* C5: an error raised while the answer is extracted reaches the caller as the
\* RuntimeError of line 111 and none is discarded, and a call that returns returns
\* a non-empty str.
C5_ExtractionNeverEmpty ==
    Answered =>
        /\ last.raised => last.error = "RuntimeError"
        /\ ~last.swallowed
        /\ ~last.raised => last.value.k = "str"

\* C6: an error of the search or of the backend call leaves generate_response as it
\* was raised (never as the extraction's RuntimeError); the search is called at
\* most once and the backend at most once, and not at all after a failed search.
C6_CollaboratorErrorsPropagate ==
    last.op = "generate" =>
        /\ last.searches <= 1 /\ last.genCalls <= 1
        /\ SearchRaised =>
              /\ last.raised /\ last.error = "ChromaError"
              /\ last.genCalls = 0
        /\ (~SearchRaised /\ last.backend # "returns") =>
              /\ last.raised /\ last.error = last.backend
              /\ last.error # "RuntimeError"
              /\ last.searches = 1 /\ last.genCalls = 1

\* the backend refused the request after a search over a non-empty collection, and
\* its error reached the caller
C6_Witness ==
    /\ last.op = "generate" /\ last.before # << >>
    /\ last.backend = "GenerationError"
    /\ last.raised /\ last.error = "GenerationError"
    /\ last.result # << >>

----------------------------------------------------------------------------
(* Properties of the entry point (SpecMain) *)

\* C8: main prints only after RAGSystem(), ingest_documents and generate_response
\* have returned, in this order; a run in which one of them raises ends with that
\* error and has printed nothing.
C8_PrintOnlyAfterSuccess ==
    /\ stdout # << >> =>
          /\ mainpc = "exit0"
          /\ mainSteps = <<"construct", "ingest", "generate">>
          /\ Len(stdout) = 2
    /\ mainpc = "failed" =>
          /\ stdout = << >>
          /\ mainError.kind # ""
          /\ mainError.stage \in {"construct", "ingest", "generate"}
    /\ mainpc = "exit0" => mainError = NoError

\* a run that found files to ingest and had a key ended with an error and no output
C8_Witness ==
    /\ mainpc = "failed" /\ stdout = << >>
    /\ ListDocuments(env) # << >>
    /\ env.gemini # ""

\* C9: RAGSystem() returns whatever the API keys: no run of main ends with an error
\* of the construction.
C9_ConstructionCompletes ==
    mainpc # "start" => mainError.stage # "construct"

====
